---------------------------- MODULE Spec2Model ----------------------------
(***************************************************************************)
(* A model of BitgetBot: the candidate filter (pick_symbols,               *)
(* filter_small_caps), the two market-cap builders, the signal scorer      *)
(* (compute_signal) and the polling cycle (run_once and the __main__       *)
(* loop).                                                                  *)
(*                                                                         *)
(* Conventions.                                                            *)
(*  - Python strings are TLA+ strings; "" also stands for an absent or     *)
(*    None string field (t.get(k) or ... treats the three alike).          *)
(*  - Python floats are fixed-point integers.  24h-change values are in    *)
(*    units of 1/10000 (0.0123 is 123, 1.23 is 12300, 30 is 300000);       *)
(*    market caps are whole dollars.                                       *)
(*  - None is the record NoneV; a number v is Num(v).                      *)
(***************************************************************************)
EXTENDS Integers, Sequences, FiniteSets, TLC

VARIABLES
    pc,          \* position of the process (which operation runs next)
    tickers,     \* pick_symbols / run_once: the ticker list
    cg_caps,     \* pick_symbols / run_once: base symbol -> market cap
    small_caps,  \* pick_symbols: the list filter_small_caps returned
    symbols,     \* pick_symbols' result (run_once: the candidates)
    source,      \* market-cap builders: what the listing source answers
    built,       \* market-cap builders: the call's outcome
    df_1h,       \* compute_signal: the slow series
    df_15m,      \* compute_signal: the fast series
    analysis,    \* compute_signal: the call's outcome
    gemini_api_key, \* settings: whether the second pass runs
    exch_caps,   \* run_once: the exchange-scoped mapping as it was built
    generic_caps,\* run_once: the generic mapping, when it was computed
    bad_tickers, \* run_once: the ticker list holds an element that is no dict
    pass,        \* run_once: the candidate loop that is running
    cand,        \* run_once: index of the loop's current candidate
    sv,          \* run_once: index of the symbol variant tried next
    alerts,      \* run_once: the alerts list
    sent,        \* the messages handed to send_alert
    failed_at,   \* the step whose exception ended the cycle, "" if none
    prev_failed  \* whether the cycle before this one ended on an exception

pickVars == <<tickers, cg_caps, small_caps, symbols>>
buildVars == <<source, built>>
signalVars == <<df_1h, df_15m, analysis>>
cycleVars == <<gemini_api_key, exch_caps, generic_caps, bad_tickers, pass, cand, sv,
               alerts, sent, failed_at, prev_failed>>
vars == <<pc, pickVars, buildVars, signalVars, cycleVars>>

-----------------------------------------------------------------------------
(* Bounds of the model *)

\* longest ticker list handed to pick_symbols
MaxTickers == 2

\* largest value of the builders' pages parameter
MaxPages == 3

\* longest slow series handed to compute_signal
MaxSlowRows == 3

-----------------------------------------------------------------------------
(* Python values *)

NoneV == [none |-> TRUE, v |-> 0]
Num(x) == [none |-> FALSE, v |-> x]

\* one unit of a 24h-change value in the fixed-point representation
Pct(whole, frac) == whole * 10000 + frac

Abs(x) == IF x < 0 THEN -x ELSE x
Min(a, b) == IF a <= b THEN a ELSE b

-----------------------------------------------------------------------------
(* str methods *)

\* s.endswith(suf)
EndsWith(s, suf) ==
    /\ Len(s) >= Len(suf)
    /\ SubSeq(s, Len(s) - Len(suf) + 1, Len(s)) = suf

\* s.replace(pat, ""): the occurrences of pat, left to right, not overlapping
RECURSIVE Remove(_, _)
Remove(s, pat) ==
    IF Len(s) < Len(pat) THEN s
    ELSE IF SubSeq(s, 1, Len(pat)) = pat
         THEN Remove(SubSeq(s, Len(pat) + 1, Len(s)), pat)
         ELSE SubSeq(s, 1, 1) \o Remove(SubSeq(s, 2, Len(s)), pat)

LowerLetters == "abcdefghijklmnopqrstuvwxyz"
UpperLetters == "ABCDEFGHIJKLMNOPQRSTUVWXYZ"

UpperChar(c) ==
    IF \E i \in 1..Len(LowerLetters) : SubSeq(LowerLetters, i, i) = c
    THEN LET i == CHOOSE j \in 1..Len(LowerLetters) : SubSeq(LowerLetters, j, j) = c
         IN  SubSeq(UpperLetters, i, i)
    ELSE c

\* s.upper()
RECURSIVE Upper(_)
Upper(s) ==
    IF Len(s) = 0 THEN s
    ELSE UpperChar(SubSeq(s, 1, 1)) \o Upper(SubSeq(s, 2, Len(s)))

-----------------------------------------------------------------------------
(* src/config.py: the strategy parameters (defaults) *)

min_market_cap == 5000000
max_market_cap == 250000000
skip_if_24h_gain_pct == 30

\* the ceiling in the fixed-point unit of the 24h-change values
GainCeiling == Pct(skip_if_24h_gain_pct, 0)

-----------------------------------------------------------------------------
(* A ticker as the exchange returns it.  symbol and instId are strings; the *)
(* three 24h-change fields hold a raw value or are absent.  A raw value is  *)
(* a str or a number; a str may end in "%"; its numeric text parses to num  *)
(* or does not parse (parses = FALSE: "n/a", None, ...).                    *)

Absent == [present |-> FALSE, isStr |-> FALSE, pct |-> FALSE, parses |-> FALSE, num |-> 0]
RawNum(x) == [present |-> TRUE, isStr |-> FALSE, pct |-> FALSE, parses |-> TRUE, num |-> x]
RawStr(x) == [present |-> TRUE, isStr |-> TRUE, pct |-> FALSE, parses |-> TRUE, num |-> x]
RawPctStr(x) == [present |-> TRUE, isStr |-> TRUE, pct |-> TRUE, parses |-> TRUE, num |-> x]
RawBad == [present |-> TRUE, isStr |-> TRUE, pct |-> FALSE, parses |-> FALSE, num |-> 0]
RawBadPct == [present |-> TRUE, isStr |-> TRUE, pct |-> TRUE, parses |-> FALSE, num |-> 0]

Ticker(sym, inst, c1, c2, c3) ==
    [symbol |-> sym, instId |-> inst,
     priceChgPct |-> c1, changePercent |-> c2, chgPct |-> c3]

\* the aliases of the 24h-change field, in the order pick_symbols tries them
ChangeKeys == <<"priceChgPct", "changePercent", "chgPct">>

\* ParseChange with the fraction test written "<= 2"
ParseChange_le2(val) ==
    IF val.isStr /\ val.pct
    THEN [ok |-> val.parses, v |-> val.num]
    ELSE [ok |-> val.parses,
          v |-> val.num * (IF Abs(val.num) <= Pct(2, 0) THEN 100 ELSE 1)]

\* the body of the try block for one alias: [ok |-> parsed, v |-> change]
ParseChange(val) ==
    IF val.isStr /\ val.pct
    THEN \* float(val.strip("%"))
         [ok |-> val.parses, v |-> val.num]
    ELSE \* float(val) * (100 if abs(float(val)) < 2 else 1)
         [ok |-> val.parses,
          v |-> val.num * (IF Abs(val.num) < Pct(2, 0) THEN 100 ELSE 1)]

\* the loop over the aliases, from alias i on: break on the first alias that
\* is in t and parses, continue on an exception
RECURSIVE ChangeFrom(_, _)
ChangeFrom(t, i) ==
    IF i > Len(ChangeKeys) THEN NoneV
    ELSE LET val == t[ChangeKeys[i]]
         IN  IF val.present /\ ParseChange(val).ok
             THEN Num(ParseChange(val).v)
             ELSE ChangeFrom(t, i + 1)

change_of(t) == ChangeFrom(t, 1)

\* base_of without the removal of "_SPBL"
base_of_keep_suffix(symbol) ==
    IF symbol = "" THEN ""
    ELSE LET s == Remove(symbol, "-")
         IN  IF EndsWith(s, "USDT") THEN SubSeq(s, 1, Len(s) - 4)
             ELSE IF EndsWith(s, "USDC") THEN SubSeq(s, 1, Len(s) - 4)
             ELSE IF EndsWith(s, "USD") THEN SubSeq(s, 1, Len(s) - 3)
             ELSE SubSeq(s, 1, Min(5, Len(s)))

\* the base asset filter_small_caps extracts from a pair symbol ("" is no base)
base_of(symbol) ==
    IF symbol = "" THEN ""
    ELSE LET s == Remove(Remove(symbol, "-"), "_SPBL")
         IN  IF EndsWith(s, "USDT") THEN SubSeq(s, 1, Len(s) - 4)
             ELSE IF EndsWith(s, "USDC") THEN SubSeq(s, 1, Len(s) - 4)
             ELSE IF EndsWith(s, "USD") THEN SubSeq(s, 1, Len(s) - 3)
             ELSE SubSeq(s, 1, Min(5, Len(s)))

\* t.get("symbol") or t.get("instId") or ""
symbol_of(t) == IF t.symbol # "" THEN t.symbol ELSE t.instId

\* in_band with exclusive ends
in_band_exclusive(min_cap, cap, max_cap) == min_cap < cap /\ cap < max_cap

\* the band test of filter_small_caps
in_band(min_cap, cap, max_cap) == min_cap <= cap /\ cap <= max_cap

RECURSIVE filter_small_caps(_, _, _, _)
filter_small_caps(bitget_tickers, min_cap, max_cap, cg_symbol_caps) ==
    IF bitget_tickers = <<>> THEN <<>>
    ELSE LET t == Head(bitget_tickers)
             rest == filter_small_caps(Tail(bitget_tickers), min_cap, max_cap,
                                       cg_symbol_caps)
             base == base_of(symbol_of(t))
         IN  IF base = "" THEN rest
             ELSE IF Upper(base) \notin DOMAIN cg_symbol_caps THEN rest
             ELSE LET cap == cg_symbol_caps[Upper(base)]
                  IN  IF in_band(min_cap, cap, max_cap)
                      THEN <<("_base" :> Upper(base)) @@ ("_market_cap" :> cap) @@ t>>
                           \o rest
                      ELSE rest

\* the first loop of pick_symbols: every ticker gets its _24h_change_pct
with_change(ts) ==
    [i \in 1..Len(ts) |-> ("_24h_change_pct" :> change_of(ts[i])) @@ ts[i]]

\* over_ceiling with ">=" for ">"
over_ceiling_ge(chg) == ~chg.none /\ chg.v >= GainCeiling

\* the ceiling test of pick_symbols: TRUE when the ticker is dropped
over_ceiling(chg) == ~chg.none /\ chg.v > GainCeiling

RECURSIVE under_ceiling(_)
under_ceiling(ts) ==
    IF ts = <<>> THEN <<>>
    ELSE IF over_ceiling(Head(ts)["_24h_change_pct"])
         THEN under_ceiling(Tail(ts))
         ELSE <<Head(ts)>> \o under_ceiling(Tail(ts))

pick_small_caps(ts, caps) ==
    filter_small_caps(with_change(ts), min_market_cap, max_market_cap, caps)

pick_symbols(ts, caps) == under_ceiling(pick_small_caps(ts, caps))

-----------------------------------------------------------------------------
(* pick_symbols on its own: the inputs *)

\* market caps around the two ends of the band
CapValues ==
    {min_market_cap - 1, min_market_cap, min_market_cap + 1,
     max_market_cap - 1, max_market_cap, max_market_cap + 1}

\* the market-cap mappings: ABC has any of the values or no entry, XYZ the
\* upper end of the band or no entry
BandCaps ==
    UNION {[d -> CapValues] : d \in SUBSET {"ABC"}}
      \cup {f @@ ("XYZ" :> max_market_cap) :
               f \in UNION {[d -> CapValues] : d \in SUBSET {"ABC"}}}

\* pair symbols in the shapes the exchange uses, and some it does not
PairSymbols ==
    {"ABCUSDT", "ABC-USDT", "ABCUSDT_SPBL", "XYZUSD", "abcUSDC", "USDT", "ABCDEFG"}

BandTickers ==
    {Ticker(s, "", Absent, Absent, Absent) : s \in PairSymbols}
      \cup {Ticker("", "XYZ-USDT", Absent, Absent, Absent),
            Ticker("", "", Absent, Absent, Absent)}

\* raw 24h-change values: the spec's examples, the two sides of the
\* fraction/percentage boundary (2) and of the ceiling (30)
FirstAliasValues ==
    {Absent, RawBad,
     RawPctStr(Pct(1, 2300)), RawPctStr(Pct(31, 0)), RawPctStr(Pct(0, 5000)),
     RawNum(Pct(0, 123)), RawStr(Pct(0, 123)),
     RawNum(Pct(1, 9999)), RawNum(Pct(2, 0)), RawNum(Pct(5, 0)),
     RawNum(Pct(30, 0)), RawNum(Pct(30, 1)), RawNum(-Pct(1, 5000))}
SecondAliasValues == {Absent, RawNum(Pct(5, 0))}

\* the first alias decides alone or together with the second; the third
\* alias decides when the first two are absent or do not parse
ChangeTickers ==
    {Ticker("ABCUSDT", "", c1, c2, Absent) :
        c1 \in FirstAliasValues, c2 \in SecondAliasValues}
      \cup {Ticker("ABCUSDT", "", Absent, Absent, RawNum(Pct(0, 123))),
            Ticker("ABCUSDT", "", RawBad, RawBadPct, RawNum(Pct(0, 123))),
            Ticker("ABCUSDT", "", Absent, RawBad, RawPctStr(Pct(31, 0))),
            Ticker("ABCUSDT", "", RawBad, RawBad, RawBad)}

ChangeCaps == {("ABC" :> min_market_cap)}

ListsOf(S, n) == UNION {[1..k -> S] : k \in 0..n}

\* generic_caps before the generic mapping is computed
NoGeneric == [computed |-> FALSE, caps |-> <<>>]

\* the variables of an operation that is not running
IdlePick == tickers = <<>> /\ cg_caps = <<>> /\ small_caps = <<>> /\ symbols = <<>>
IdleBuild == source = <<>> /\ built = <<>>
IdleSignal == df_1h = <<>> /\ df_15m = <<>> /\ analysis = <<>>
IdleCycle ==
    /\ gemini_api_key = FALSE
    /\ exch_caps = <<>> /\ generic_caps = NoGeneric
    /\ bad_tickers = FALSE
    /\ pass = "" /\ cand = 0 /\ sv = 0
    /\ alerts = <<>> /\ sent = <<>>
    /\ failed_at = "" /\ prev_failed = FALSE

InitPick ==
    /\ pc = "pick_symbols"
    /\ \/ tickers \in ListsOf(BandTickers, MaxTickers) /\ cg_caps \in BandCaps
       \/ tickers \in ListsOf(ChangeTickers, MaxTickers) /\ cg_caps \in ChangeCaps
    /\ small_caps = <<>>
    /\ symbols = <<>>
    /\ IdleBuild
    /\ IdleSignal
    /\ IdleCycle

\* run_once, line 92 (and pick_symbols as a whole)
PickSymbols ==
    /\ pc = "pick_symbols"
    /\ ~bad_tickers
    /\ small_caps' = pick_small_caps(tickers, cg_caps)
    /\ symbols' = pick_symbols(tickers, cg_caps)
    /\ pc' = "candidates"
    /\ UNCHANGED <<tickers, cg_caps, buildVars, signalVars, cycleVars>>

NextPick == PickSymbols

SpecPick == InitPick /\ [][NextPick]_vars

-----------------------------------------------------------------------------
(* Claims about pick_symbols and filter_small_caps, under SpecPick *)

\* the fields of a ticker as it came in
TickerFields == {"symbol", "instId", "priceChgPct", "changePercent", "chgPct"}
AsReceived(t) == [k \in TickerFields |-> t[k]]
ReceivedOf(ts) == [j \in 1..Len(ts) |-> AsReceived(ts[j])]

HasCapEntry(t) ==
    /\ base_of(symbol_of(t)) # ""
    /\ Upper(base_of(symbol_of(t))) \in DOMAIN cg_caps
CapOf(t) == cg_caps[Upper(base_of(symbol_of(t)))]

C5_Kept(t) ==
    HasCapEntry(t) /\ CapOf(t) >= min_market_cap /\ CapOf(t) <= max_market_cap

\* C5: filter_small_caps keeps exactly the tickers whose base has a market-cap
\* entry with min_cap <= cap <= max_cap, both ends included, in their order;
\* a ticker whose base has no entry is dropped.
C5_BandInclusive ==
    pc = "candidates" =>
        /\ ReceivedOf(small_caps) = SelectSeq(tickers, C5_Kept)
        /\ \A j \in 1..Len(small_caps) :
              /\ small_caps[j]["_market_cap"] >= min_market_cap
              /\ small_caps[j]["_market_cap"] <= max_market_cap

\* a list where a cap equal to max_cap is kept and a cap one unit above it is
\* dropped
C5_Witness ==
    /\ pc = "candidates"
    /\ \E i \in 1..Len(tickers) :
          HasCapEntry(tickers[i]) /\ CapOf(tickers[i]) = max_market_cap + 1
    /\ \E i \in 1..Len(tickers) :
          HasCapEntry(tickers[i]) /\ CapOf(tickers[i]) = max_market_cap
    /\ Len(small_caps) = 1

\* the 24h change of a ticker is known when some alias holds a value that parses
ChangeKnown(t) ==
    \E i \in 1..Len(ChangeKeys) : t[ChangeKeys[i]].present /\ t[ChangeKeys[i]].parses

C6_Dropped(t) ==
    ChangeKnown(t) /\ t["_24h_change_pct"].v > Pct(skip_if_24h_gain_pct, 0)
C6_Passes(t) == ~C6_Dropped(t)

\* C6: among the tickers that pass the market-cap band, pick_symbols drops a
\* ticker if and only if its 24h change is known and strictly greater than the
\* ceiling; a ticker whose change is absent or unparseable under every alias
\* has no change value and is not dropped.
C6_CeilingDropsOnlyKnownAbove ==
    pc = "candidates" =>
        /\ symbols = SelectSeq(small_caps, C6_Passes)
        /\ \A j \in 1..Len(small_caps) :
              ~ChangeKnown(small_caps[j]) =>
                  /\ small_caps[j]["_24h_change_pct"] = NoneV
                  /\ \E k \in 1..Len(symbols) : symbols[k] = small_caps[j]

\* a ticker above the ceiling is dropped while one with an unparseable change
\* stays in the result
C6_Witness ==
    /\ pc = "candidates"
    /\ \E j \in 1..Len(small_caps) :
          /\ small_caps[j].priceChgPct = RawNum(Pct(30, 1))
          /\ \A k \in 1..Len(symbols) : symbols[k] # small_caps[j]
    /\ \E k \in 1..Len(symbols) :
          /\ symbols[k].priceChgPct = RawBad
          /\ symbols[k].changePercent = RawBad
          /\ symbols[k].chgPct = RawBad

\* the value an alias holding a parseable raw value stands for
C7_Normalized(raw) ==
    IF raw.isStr /\ raw.pct THEN raw.num
    ELSE IF -Pct(2, 0) < raw.num /\ raw.num < Pct(2, 0) THEN 100 * raw.num
    ELSE raw.num

C7_Matches(t, k) == t[k].present /\ t[k].parses

\* C7: the recorded 24h change is the normalized value of the first alias, in
\* the order priceChgPct, changePercent, chgPct, that holds a value that parses:
\* a string ending in "%" is taken as it is, any other number v becomes 100*v
\* when |v| < 2 and stays v when |v| >= 2; with no such alias it is None.
C7_ChangeNormalization ==
    pc = "candidates" =>
        \A j \in 1..Len(small_caps) :
            LET t == small_caps[j]
                chg == t["_24h_change_pct"]
            IN  IF C7_Matches(t, "priceChgPct")
                    THEN chg = Num(C7_Normalized(t.priceChgPct))
                ELSE IF C7_Matches(t, "changePercent")
                    THEN chg = Num(C7_Normalized(t.changePercent))
                ELSE IF C7_Matches(t, "chgPct")
                    THEN chg = Num(C7_Normalized(t.chgPct))
                ELSE chg = NoneV

\* "1.23%" recorded as 1.23 and, in the same list, 2.0 recorded as 2.0 although
\* a later alias holds 5.0
C7_Witness ==
    /\ pc = "candidates"
    /\ \E j \in 1..Len(small_caps) :
          /\ small_caps[j].priceChgPct = RawPctStr(Pct(1, 2300))
          /\ small_caps[j]["_24h_change_pct"] = Num(Pct(1, 2300))
    /\ \E j \in 1..Len(small_caps) :
          /\ small_caps[j].priceChgPct = RawNum(Pct(2, 0))
          /\ small_caps[j].changePercent = RawNum(Pct(5, 0))
          /\ small_caps[j]["_24h_change_pct"] = Num(Pct(2, 0))

-----------------------------------------------------------------------------
(* Exceptions.  The classes the sources raise, by name. *)

RequestErrors == {"ConnectionError", "HTTPError", "JSONDecodeError"}

\* issubclass(exc, cls) for the classes an except clause of the program names
IsSubclass(exc, cls) ==
    \/ cls = "Exception"
    \/ exc = cls
    \/ cls = "RequestException" /\ exc \in RequestErrors

-----------------------------------------------------------------------------
(* The answer of a listing source to one page request: the request raises    *)
(* exc (kind "error"), or the payload is not of the expected JSON shape (kind *)
(* "malformed"), or it carries rows (kind "payload").                        *)

PageError(e) == [kind |-> "error", exc |-> e, rows |-> <<>>]
PageMalformed == [kind |-> "malformed", exc |-> "", rows |-> <<>>]
Page(rows) == [kind |-> "payload", exc |-> "", rows |-> rows]

EmptyMap == [x \in {} |-> 0]

-----------------------------------------------------------------------------
(* build_symbol_marketcap_map: the generic builder *)

\* a record of /coins/markets
Market(sym, mc) == [symbol |-> sym, market_cap |-> mc]

\* the inner loop: caps.setdefault(sym, []).append(float(mc))
RECURSIVE AppendCaps(_, _)
AppendCaps(caps, items) ==
    IF items = <<>> THEN caps
    ELSE LET it == Head(items)
             sym == Upper(it.symbol)
         IN  IF it.market_cap.none THEN AppendCaps(caps, Tail(items))
             ELSE AppendCaps(
                      (sym :> (IF sym \in DOMAIN caps THEN caps[sym] ELSE <<>>)
                                  \o <<it.market_cap.v>>) @@ caps,
                      Tail(items))

\* the loop over the pages p..pages: a RequestException ends it, any other
\* exception leaves the function
RECURSIVE CollectCaps(_, _, _)
CollectCaps(pgs, p, caps) ==
    IF p > Len(pgs) THEN [raised |-> FALSE, caps |-> caps]
    ELSE LET pg == pgs[p]
         IN  IF pg.kind = "error"
             THEN IF IsSubclass(pg.exc, "RequestException")
                  THEN [raised |-> FALSE, caps |-> caps]
                  ELSE [raised |-> TRUE, caps |-> caps]
             ELSE IF pg.kind = "malformed"
             THEN [raised |-> TRUE, caps |-> caps]
             ELSE CollectCaps(pgs, p + 1, AppendCaps(caps, pg.rows))

Ascending(a, b) == a < b

\* s = sorted(lst); mid = s[len(s)//2]
middle_of(lst) == SortSeq(lst, Ascending)[(Len(lst) \div 2) + 1]

build_symbol_marketcap_map(pgs) ==
    LET c == CollectCaps(pgs, 1, EmptyMap)
    IN  IF c.raised THEN [raised |-> TRUE, caps |-> EmptyMap]
        ELSE [raised |-> FALSE,
              caps |-> [sym \in DOMAIN c.caps |-> middle_of(c.caps[sym])]]

\* what one page of the generic listing may hold
GenericPages ==
    {PageError("ConnectionError"), PageMalformed, Page(<<>>),
     Page(<<Market("abc", Num(10))>>),
     Page(<<Market("abc", Num(20))>>),
     Page(<<Market("abc", Num(30)), Market("xyz", Num(20))>>),
     Page(<<Market("ABC", Num(40)), Market("abc", NoneV)>>),
     Page(<<Market("xyz", Num(50)), Market("xyz", Num(10))>>)}

InitGeneric ==
    /\ pc = "build_generic"
    /\ source \in ListsOf(GenericPages, MaxPages)
    /\ built = <<>>
    /\ IdlePick
    /\ IdleSignal
    /\ IdleCycle

BuildGeneric ==
    /\ pc = "build_generic"
    /\ built' = build_symbol_marketcap_map(source)
    /\ pc' = "built_generic"
    /\ UNCHANGED <<source, pickVars, signalVars, cycleVars>>

NextGeneric == BuildGeneric

SpecGeneric == InitGeneric /\ [][NextGeneric]_vars

-----------------------------------------------------------------------------
(* Claims about build_symbol_marketcap_map, under SpecGeneric *)

\* the pages fetched: those before the first page whose request raises
RECURSIVE FetchedRows(_)
FetchedRows(pgs) ==
    IF pgs = <<>> \/ Head(pgs).kind # "payload" THEN <<>>
    ELSE Head(pgs).rows \o FetchedRows(Tail(pgs))

IsCapOf(sym, it) == Upper(it.symbol) = sym /\ ~it.market_cap.none

\* the market caps observed for sym, in page order
RECURSIVE ObservedCaps(_, _)
ObservedCaps(sym, rows) ==
    IF rows = <<>> THEN <<>>
    ELSE (IF IsCapOf(sym, Head(rows)) THEN <<Head(rows).market_cap.v>> ELSE <<>>)
            \o ObservedCaps(sym, Tail(rows))

\* x is the median of the values: the middle one of an odd number of values,
\* the mean of the two middle ones of an even number
IsMedian(x, values) ==
    LET s == SortSeq(values, Ascending)
        n == Len(s)
    IN  IF n % 2 = 1 THEN x = s[(n + 1) \div 2]
        ELSE 2 * x = s[n \div 2] + s[(n \div 2) + 1]

\* C8: for every symbol the resolved market cap is the median of all the
\* market caps observed for it over the fetched pages, for an odd and for an
\* even number of observed values.
C8_ResolvedIsMedian ==
    (pc = "built_generic" /\ ~built.raised) =>
        \A sym \in DOMAIN built.caps :
            IsMedian(built.caps[sym], ObservedCaps(sym, FetchedRows(source)))

-----------------------------------------------------------------------------
(* build_marketcap_map_from_exchange: the exchange-scoped builder *)

STABLE_TARGETS == {"USDT", "USDC", "USD"}

\* markets are fetched by identifier in chunks of this many
chunk == 200

\* a ticker of /exchanges/bitget/tickers: coin_id, or the id inside coin
ExTicker(target, coin_id, nested_id) ==
    [target |-> target, coin_id |-> coin_id, nested_id |-> nested_id]

\* cid = t.get("coin_id") or (t.get("coin", {}) or {}).get("id")
cid_of(t) == IF t.coin_id # "" THEN t.coin_id ELSE t.nested_id

\* the inner loop over one page's tickers
AppendIds(coin_ids, ts) ==
    LET kept == SelectSeq(ts, LAMBDA t : /\ Upper(t.target) \in STABLE_TARGETS
                                        /\ cid_of(t) # "")
    IN  coin_ids \o [i \in 1..Len(kept) |-> cid_of(kept[i])]

\* the page loop with "continue" where the code has "break"
RECURSIVE CollectIds_continue(_, _, _)
CollectIds_continue(pgs, p, acc) ==
    IF p > Len(pgs) THEN acc
    ELSE LET pg == pgs[p]
             asked == [acc EXCEPT !.requested = Append(@, p)]
         IN  IF pg.kind = "error"
             THEN IF IsSubclass(pg.exc, "RequestException")
                  THEN CollectIds_continue(pgs, p + 1, asked)
                  ELSE [asked EXCEPT !.raised = TRUE]
             ELSE IF pg.kind = "malformed"
             THEN [asked EXCEPT !.raised = TRUE]
             ELSE IF pg.rows = <<>>
             THEN CollectIds_continue(pgs, p + 1, asked)
             ELSE CollectIds_continue(pgs, p + 1,
                      [asked EXCEPT !.coin_ids = AppendIds(@, pg.rows)])

\* the loop over the pages p..pages: a RequestException or an empty page ends
\* it; acc holds the pages requested and the identifiers collected so far
RECURSIVE CollectIds(_, _, _)
CollectIds(pgs, p, acc) ==
    IF p > Len(pgs) THEN acc
    ELSE LET pg == pgs[p]
             asked == [acc EXCEPT !.requested = Append(@, p)]
         IN  IF pg.kind = "error"
             THEN IF IsSubclass(pg.exc, "RequestException")
                  THEN asked
                  ELSE [asked EXCEPT !.raised = TRUE]
             ELSE IF pg.kind = "malformed"
             THEN [asked EXCEPT !.raised = TRUE]
             ELSE IF pg.rows = <<>>
             THEN asked
             ELSE CollectIds(pgs, p + 1,
                      [asked EXCEPT !.coin_ids = AppendIds(@, pg.rows)])

\* list(dict.fromkeys(coin_ids)): the first occurrence of each, in order
Dedup(ids) ==
    LET first == {i \in 1..Len(ids) : \A j \in 1..(i - 1) : ids[j] # ids[i]}
        nth(k) == CHOOSE i \in first : Cardinality({j \in first : j <= i}) = k
    IN  [k \in 1..Cardinality(first) |-> ids[nth(k)]]

\* coingecko_markets_by_ids(part) when the request succeeds: the records the
\* market source db holds for the identifiers
MarketsOf(db, part) ==
    LET known == SelectSeq(part, LAMBDA id : id \in DOMAIN db)
    IN  [i \in 1..Len(known) |-> db[known[i]]]

Max(a, b) == IF a >= b THEN a ELSE b

\* the loop over one chunk's market records
RECURSIVE AddMarkets(_, _)
AddMarkets(caps, markets) ==
    IF markets = <<>> THEN caps
    ELSE LET mk == Head(markets)
             sym == Upper(mk.symbol)
         IN  IF mk.market_cap.none \/ sym = "" THEN AddMarkets(caps, Tail(markets))
             ELSE IF sym \in DOMAIN caps
             THEN AddMarkets([caps EXCEPT ![sym] = Max(mk.market_cap.v, @)],
                             Tail(markets))
             ELSE AddMarkets((sym :> Max(mk.market_cap.v, 0)) @@ caps, Tail(markets))

\* the loop over the chunks, from offset i: a chunk whose request raises a
\* RequestException is skipped; acc holds the chunks asked for and the caps
RECURSIVE ResolveChunks(_, _, _, _)
ResolveChunks(mk, coin_ids, i, acc) ==
    IF i >= Len(coin_ids) THEN acc
    ELSE LET part == SubSeq(coin_ids, i + 1, Min(i + chunk, Len(coin_ids)))
             asked == [acc EXCEPT !.lookups = Append(@, part)]
         IN  IF mk.exc # ""
             THEN IF IsSubclass(mk.exc, "RequestException")
                  THEN ResolveChunks(mk, coin_ids, i + chunk, asked)
                  ELSE [asked EXCEPT !.raised = TRUE]
             ELSE ResolveChunks(mk, coin_ids, i + chunk,
                      [asked EXCEPT !.caps = AddMarkets(@, MarketsOf(mk.db, part))])

\* src is the exchange-ticker pages and the market source
build_marketcap_map_from_exchange(src) ==
    LET start == [requested |-> <<>>, coin_ids |-> <<>>, lookups |-> <<>>,
                  caps |-> EmptyMap, raised |-> FALSE]
        got == CollectIds(src.pages, 1, start)
        ids == [got EXCEPT !.coin_ids = Dedup(@)]
    IN  IF got.raised \/ ids.coin_ids = <<>> THEN ids
        ELSE ResolveChunks(src.markets, ids.coin_ids, 0, ids)

\* what one page of the exchange's tickers may hold
ExchangePages ==
    {PageError("ConnectionError"), PageError("HTTPError"), PageMalformed, Page(<<>>),
     Page(<<ExTicker("USDT", "abc-coin", "")>>),
     Page(<<ExTicker("usdt", "", "abc-v2"), ExTicker("BTC", "btc-coin", "")>>),
     Page(<<ExTicker("USD", "xyz-coin", ""), ExTicker("USDT", "abc-coin", "")>>),
     Page(<<ExTicker("USDC", "", "")>>)}

\* the market source: what it holds per identifier, and whether a request to
\* it raises (exc = "" when it does not)
MarketDb ==
    ("abc-coin" :> Market("abc", Num(10))) @@ ("abc-v2" :> Market("ABC", Num(30)))
      @@ ("xyz-coin" :> Market("xyz", NoneV)) @@ ("btc-coin" :> Market("btc", Num(90)))
MarketSources ==
    {[exc |-> "", db |-> MarketDb],
     [exc |-> "", db |-> ("abc-v2" :> Market("abc", Num(5)))],
     [exc |-> "HTTPError", db |-> MarketDb]}

InitExchange ==
    /\ pc = "build_exchange"
    /\ \E pgs \in ListsOf(ExchangePages, MaxPages), mk \in MarketSources :
          source = [pages |-> pgs, markets |-> mk]
    /\ built = <<>>
    /\ IdlePick
    /\ IdleSignal
    /\ IdleCycle

BuildExchange ==
    /\ pc = "build_exchange"
    /\ built' = build_marketcap_map_from_exchange(source)
    /\ pc' = "built_exchange"
    /\ UNCHANGED <<source, pickVars, signalVars, cycleVars>>

NextExchange == BuildExchange

SpecExchange == InitExchange /\ [][NextExchange]_vars

-----------------------------------------------------------------------------
(* Claims about build_marketcap_map_from_exchange, under SpecExchange *)

C9_Stops(pg) == pg.kind = "error" \/ (pg.kind = "payload" /\ pg.rows = <<>>)

\* the first page that is empty or whose request raises; pages + 1 if none
C9_StopPage ==
    IF \E p \in 1..Len(source.pages) : C9_Stops(source.pages[p])
    THEN CHOOSE p \in 1..Len(source.pages) :
            /\ C9_Stops(source.pages[p])
            /\ \A q \in 1..(p - 1) : ~C9_Stops(source.pages[q])
    ELSE Len(source.pages) + 1

Range(f) == {f[i] : i \in DOMAIN f}

\* the tickers on the pages before page p
C9_TickersBefore(p) ==
    UNION {Range(source.pages[q].rows) : q \in 1..(p - 1)}

\* the identifiers of the stable-quoted tickers on the pages before page p
C9_StableIdsBefore(p) ==
    {cid_of(t) : t \in {u \in C9_TickersBefore(p) :
                            Upper(u.target) \in {"USDT", "USDC", "USD"}}} \ {""}

\* C9: the pages are requested in the order 1, 2, ...; the first page that is
\* empty or whose request raises a source error is the last one requested, the
\* call returns, and every identifier collected on the earlier pages is kept,
\* handed to the market lookup and, when the lookup answers with a symbol and
\* a market cap for it, present in the returned mapping with at least that cap.
C9_PartialResultKept ==
    (pc = "built_exchange"
       /\ \A q \in 1..Len(source.pages) :
             q < C9_StopPage => source.pages[q].kind = "payload") =>
        /\ built.requested
              = [p \in 1..Min(C9_StopPage, Len(source.pages)) |-> p]
        /\ ~built.raised
        /\ Range(built.coin_ids) = C9_StableIdsBefore(C9_StopPage)
        /\ Len(built.coin_ids) = Cardinality(C9_StableIdsBefore(C9_StopPage))
        /\ \A id \in C9_StableIdsBefore(C9_StopPage) :
              /\ \E k \in 1..Len(built.lookups) : id \in Range(built.lookups[k])
              /\ (/\ source.markets.exc = ""
                  /\ id \in DOMAIN source.markets.db
                  /\ ~source.markets.db[id].market_cap.none) =>
                    LET sym == Upper(source.markets.db[id].symbol)
                    IN  /\ sym \in DOMAIN built.caps
                        /\ built.caps[sym] >= source.markets.db[id].market_cap.v

\* a page with identifiers, then a page whose request raises, then a page with
\* tickers that is never requested; the first page's identifier is resolved
C9_Witness ==
    /\ pc = "built_exchange"
    /\ Len(source.pages) = 3
    /\ source.pages[1] = Page(<<ExTicker("USDT", "abc-coin", "")>>)
    /\ source.pages[2] = PageError("HTTPError")
    /\ source.pages[3].kind = "payload" /\ source.pages[3].rows # <<>>
    /\ built.requested = <<1, 2>>
    /\ built.caps = ("ABC" :> 10)

-----------------------------------------------------------------------------
(* Indicator values: a float is NaN or a number.  A comparison with NaN is   *)
(* false and arithmetic on NaN gives NaN, as in Python.                      *)

NaN == [nan |-> TRUE, v |-> 0]
F(x) == [nan |-> FALSE, v |-> x]

Gt(a, b) == ~a.nan /\ ~b.nan /\ a.v > b.v
Lt(a, b) == ~a.nan /\ ~b.nan /\ a.v < b.v
Le(a, b) == ~a.nan /\ ~b.nan /\ a.v <= b.v
Sub(a, b) == IF a.nan \/ b.nan THEN NaN ELSE F(a.v - b.v)

-----------------------------------------------------------------------------
(* A candle series.  close, high and volume are the candle's numbers (no NaN: *)
(* bitget_candles drops such rows); rsi, macd, macd_signal, ema20 and ema50   *)
(* are the columns the ta library computes for the row.  candles is what the *)
(* candlestick library, when installed, answers for the series' last row.    *)

Row(close, high, volume, rsi, macd, macd_signal, ema20, ema50) ==
    [close |-> close, high |-> high, volume |-> volume, rsi |-> rsi,
     macd |-> macd, macd_signal |-> macd_signal, ema20 |-> ema20, ema50 |-> ema50]

Frame(rows, candles) == [missing |-> FALSE, rows |-> rows, candles |-> candles]

\* the window of the volume moving average
vol_window == 20

\* the resistance lookback compute_signal passes
lookback == 20

RECURSIVE SumVolume(_, _, _)
SumVolume(rows, from, to) ==
    IF from > to THEN 0 ELSE rows[from].volume + SumVolume(rows, from + 1, to)

\* df["volume"].rolling(20).mean() at row i, times 20: NaN before row 20
vol_ma20_x20(rows, i) ==
    IF i < vol_window THEN NaN ELSE F(SumVolume(rows, i - vol_window + 1, i))

\* add_indicators for a frame that has its columns: the vol_ma20 column
add_indicators(df) ==
    [i \in 1..Len(df.rows) |-> ("vol_ma20_x20" :> vol_ma20_x20(df.rows, i)) @@ df.rows[i]]

LastRow(rows) == rows[Len(rows)]

RECURSIVE MaxHigh(_, _, _)
MaxHigh(rows, from, to) ==
    IF from = to THEN rows[from].high
    ELSE Max(rows[from].high, MaxHigh(rows, from + 1, to))

\* recent_resistance_break(df, lookback)
recent_resistance_break(rows, n) ==
    IF Len(rows) < n + 1 THEN FALSE
    ELSE LastRow(rows).close > MaxHigh(rows, Len(rows) - n, Len(rows) - 1)

\* volume_spike(df, multiple) for a non-empty frame; multiple is an integer
volume_spike(rows, multiple) ==
    IF LastRow(rows).vol_ma20_x20.nan THEN FALSE
    ELSE vol_window * LastRow(rows).volume > multiple * LastRow(rows).vol_ma20_x20.v

BULLISH_PATTERNS == {"bullish_engulfing", "hammer", "morning_star", "three_white_soldiers"}

\* the candlestick module: not importable, or per pattern "none" (no such
\* function), "raises", "true" or "false" (the flag it sets on the last row)
NoCandleLib == [available |-> FALSE, fns |-> [name \in BULLISH_PATTERNS |-> "none"]]
CandleLib(fns) == [available |-> TRUE, fns |-> fns]

detect_bullish_patterns(df) ==
    IF ~df.candles.available THEN [name \in BULLISH_PATTERNS |-> FALSE]
    ELSE [name \in BULLISH_PATTERNS |->
             df.candles.fns[name] = "true" /\ Len(df.rows) > 0]

\* the test of rsi_cross_50 without the overbought limit
rsi_cross_no_limit(rsi_prev, rsi_now) == Le(rsi_prev, F(50)) /\ Lt(F(50), rsi_now)

\* rsi_prev <= 50 and 50 < rsi_now < 80
rsi_cross(rsi_prev, rsi_now) ==
    Le(rsi_prev, F(50)) /\ Lt(F(50), rsi_now) /\ Lt(rsi_now, F(80))

\* macd_prev <= 0 and macd_now > 0
macd_cross(macd_prev, macd_now) == Le(macd_prev, F(0)) /\ Gt(macd_now, F(0))

\* sum(1 for v in conds.values()) without the "if v"
RECURSIVE count_all(_, _)
count_all(conds, keys) ==
    IF keys = {} THEN 0
    ELSE LET k == CHOOSE x \in keys : TRUE
         IN  1 + count_all(conds, keys \ {k})

\* sum(1 for v in conds.values() if v), over the keys still to visit
RECURSIVE count_true(_, _)
count_true(conds, keys) ==
    IF keys = {} THEN 0
    ELSE LET k == CHOOSE x \in keys : TRUE
         IN  (IF conds[k] THEN 1 ELSE 0) + count_true(conds, keys \ {k})

Raised == [raised |-> TRUE, score |-> 0, conditions |-> EmptyMap,
           patterns |-> EmptyMap, rsi |-> NaN, price |-> 0]

\* compute_signal: ensure_ohlcv raises for a frame with missing columns, and
\* iloc[-1] raises for an empty frame
compute_signal(df1h, df15m) ==
    IF df1h.missing \/ df15m.missing THEN Raised
    ELSE IF Len(df1h.rows) = 0 \/ Len(df15m.rows) = 0 THEN Raised
    ELSE
    LET df1 == add_indicators(df1h)
        df15 == add_indicators(df15m)
        n == Len(df1)
        conds0 == [rsi_cross_50 |-> FALSE, macd_bullish_cross |-> FALSE,
                   price_above_ema20_50 |-> FALSE, ema20_gt_ema50 |-> FALSE,
                   bullish_pattern |-> FALSE]
        conds1 ==
            IF n >= 2
            THEN [conds0 EXCEPT
                    !.rsi_cross_50 = rsi_cross(df1[n - 1].rsi, df1[n].rsi),
                    !.macd_bullish_cross =
                        macd_cross(Sub(df1[n - 1].macd, df1[n - 1].macd_signal),
                                   Sub(df1[n].macd, df1[n].macd_signal))]
            ELSE conds0
        price_now == df1[n].close
        ema20 == df1[n].ema20
        ema50 == df1[n].ema50
        patterns == detect_bullish_patterns(df1h)
        conds2 ==
            [conds1 EXCEPT
                !.price_above_ema20_50 = Gt(F(price_now), ema20) /\ Gt(F(price_now), ema50),
                !.ema20_gt_ema50 = Gt(ema20, ema50),
                !.bullish_pattern = \E name \in DOMAIN patterns : patterns[name]]
        conds3 ==
            [vol_spike_15m |-> volume_spike(df15, 2),
             rsi_15m_gt_50 |-> Gt(LastRow(df15).rsi, F(50)),
             break_resistance_15m |-> recent_resistance_break(df15, lookback)] @@ conds2
        conds == [lunar_trending |-> FALSE, news_positive |-> FALSE] @@ conds3
    IN  [raised |-> FALSE,
         score |-> count_true(conds, DOMAIN conds),
         conditions |-> conds,
         patterns |-> patterns,
         rsi |-> df1[n].rsi,
         price |-> price_now]

-----------------------------------------------------------------------------
(* compute_signal on its own: the inputs *)

\* rows of a slow series: the RSI on both sides of 50 and of 80, and during
\* the indicator's warm-up (NaN)
SlowRows ==
    {Row(10, 10, 10, NaN, NaN, NaN, NaN, NaN),
     Row(10, 10, 10, F(48), F(0), F(1), F(9), F(8)),
     Row(10, 10, 10, F(50), F(1), F(1), F(11), F(9)),
     Row(10, 10, 10, F(52), F(2), F(1), F(9), F(9)),
     Row(10, 10, 10, F(65), F(2), F(1), F(9), F(8)),
     Row(8, 10, 10, F(80), F(0), F(1), F(9), F(10)),
     Row(10, 10, 10, F(85), F(2), F(1), F(10), F(9))}

CandleLibs ==
    {NoCandleLib,
     CandleLib([name \in BULLISH_PATTERNS |->
         IF name = "hammer" THEN "true"
         ELSE IF name = "morning_star" THEN "raises"
         ELSE IF name = "bullish_engulfing" THEN "none" ELSE "false"])}

SlowFrames ==
    {Frame(rows, lib) : rows \in ListsOf(SlowRows, MaxSlowRows), lib \in CandleLibs}

\* a fast series of n rows: quiet rows (high 10, volume 10, RSI 40), a first
\* row with the given high, and a last row with the given close, volume, RSI
FastRows(n, first_high, close, volume, rsi) ==
    [i \in 1..n |->
        IF i = n THEN Row(close, close, volume, rsi, NaN, NaN, NaN, NaN)
        ELSE IF i = 1 THEN Row(9, first_high, 10, F(40), NaN, NaN, NaN, NaN)
        ELSE Row(9, 10, 10, F(40), NaN, NaN, NaN, NaN)]

FastFrames ==
    {Frame(<<>>, NoCandleLib),
     Frame(FastRows(1, 10, 9, 10, F(55)), NoCandleLib),
     Frame(FastRows(20, 10, 11, 100, F(40)), NoCandleLib),
     Frame(FastRows(21, 10, 11, 10, F(50)), NoCandleLib),
     Frame(FastRows(21, 10, 10, 21, NaN), NoCandleLib),
     Frame(FastRows(22, 99, 11, 100, F(55)), NoCandleLib)}

MissingColumns == [missing |-> TRUE, rows |-> <<>>, candles |-> NoCandleLib]

InitSignal ==
    /\ pc = "compute_signal"
    /\ \/ df_1h \in SlowFrames /\ df_15m \in FastFrames
       \/ df_1h = MissingColumns /\ df_15m \in FastFrames
    /\ analysis = <<>>
    /\ IdlePick
    /\ IdleBuild
    /\ IdleCycle

ComputeSignal ==
    /\ pc = "compute_signal"
    /\ analysis' = compute_signal(df_1h, df_15m)
    /\ pc' = "scored"
    /\ UNCHANGED <<df_1h, df_15m, pickVars, buildVars, cycleVars>>

NextSignal == ComputeSignal

SpecSignal == InitSignal /\ [][NextSignal]_vars

-----------------------------------------------------------------------------
(* Claims about compute_signal, under SpecSignal *)

\* C4: whenever compute_signal returns, the score is the number of true
\* entries of the returned condition set, and 0 <= score <= 10.
C4_ScoreCountsTrueConditions ==
    (pc = "scored" /\ ~analysis.raised) =>
        /\ analysis.score
              = Cardinality({k \in DOMAIN analysis.conditions : analysis.conditions[k]})
        /\ 0 <= analysis.score
        /\ analysis.score <= 10

\* a returned analysis with all eight computed conditions true
C4_Witness ==
    /\ pc = "scored"
    /\ ~analysis.raised
    /\ analysis.score = 8
    /\ ~analysis.conditions.lunar_trending
    /\ ~analysis.conditions.news_positive

C10_Rsi(i) == df_1h.rows[i].rsi

\* C10: for a slow series of at least 2 points rsi_cross_50 is true if and
\* only if the previous RSI is <= 50 and the current RSI is strictly between
\* 50 and 80; for a shorter series it is false.
C10_RsiCross ==
    (pc = "scored" /\ ~analysis.raised) =>
        LET n == Len(df_1h.rows)
        IN  analysis.conditions.rsi_cross_50 <=>
                /\ n >= 2
                /\ ~C10_Rsi(n - 1).nan /\ C10_Rsi(n - 1).v <= 50
                /\ ~C10_Rsi(n).nan /\ 50 < C10_Rsi(n).v /\ C10_Rsi(n).v < 80

\* the series [48, 65] gives rsi_cross_50 = true
C10_Witness ==
    /\ pc = "scored"
    /\ ~analysis.raised
    /\ Len(df_1h.rows) = 2
    /\ df_1h.rows[1].rsi = F(48)
    /\ df_1h.rows[2].rsi = F(65)
    /\ analysis.conditions.rsi_cross_50

-----------------------------------------------------------------------------
(* Symbol normalization in filter_small_caps *)

Quotes == {"USDT", "USDC", "USD"}

\* bases of letters and digits, and bases that hold a separator or the
\* exchange suffix themselves
PlainBases == {"ABC", "XYZ", "abc", "A", "BTC1", "USDT"}
OddBases == {"A-B", "X_SPBL"}

\* the three spellings of the pair of base b and quote q
PairForms(b, q) == {b \o q, b \o "-" \o q, b \o q \o "_SPBL"}

\* symbols with no quote suffix
BareSymbols == {"", "-", "ABCDEFG", "abcd", "AB-CDEFG", "ABCDEF_SPBL", "USDTX"}

NormalizeSymbols ==
    BareSymbols \cup UNION {PairForms(b, q) : b \in PlainBases \cup OddBases, q \in Quotes}

\* a mapping with an in-band cap for every base the symbols can resolve to
NormalizeCaps ==
    [k \in {"ABC", "XYZ", "A", "BTC1", "USDT", "A-B", "AB", "X_SPBL", "X",
            "ABCDE", "ABCD", "USDTX", "ABCUS", "XYZUS", "AUSDT", "AUSDC", "AUSD_",
            "BTC1U", "USDTU", "ABUSD", "XUSDT", "XUSDC", "XUSD"} |-> min_market_cap]

\* one ticker, its symbol under "symbol" or under "instId"
InitNormalize ==
    /\ pc = "pick_symbols"
    /\ \E sym \in NormalizeSymbols :
          \/ tickers = <<Ticker(sym, "", Absent, Absent, Absent)>>
          \/ tickers = <<Ticker("", sym, Absent, Absent, Absent)>>
    /\ cg_caps = NormalizeCaps
    /\ small_caps = <<>>
    /\ symbols = <<>>
    /\ IdleBuild
    /\ IdleSignal
    /\ IdleCycle

NextNormalize == PickSymbols

SpecNormalize == InitNormalize /\ [][NextNormalize]_vars

\* filter_small_caps has run on the one ticker
Normalized == pc = "candidates" /\ Len(tickers) = 1

\* the ticker is kept, with the base b
ResolvesTo(b) == Len(small_caps) = 1 /\ small_caps[1]["_base"] = b

\* the pair spellings of every base in bs resolve to the uppercased base
PairsResolve(bs) ==
    \A b \in bs, q \in Quotes :
        symbol_of(tickers[1]) \in PairForms(b, q) => ResolvesTo(Upper(b))

\* a symbol with no quote suffix resolves to the first 5 characters of the
\* cleaned string, uppercased; an empty symbol to no base, and is dropped
BareResolve ==
    LET sym == symbol_of(tickers[1])
    IN  /\ sym = "ABCDEFG" => ResolvesTo("ABCDE")
        /\ sym = "abcd" => ResolvesTo("ABCD")
        /\ sym = "AB-CDEFG" => ResolvesTo("ABCDE")
        /\ sym = "ABCDEF_SPBL" => ResolvesTo("ABCDE")
        /\ sym = "USDTX" => ResolvesTo("USDTX")
        /\ sym \in {"", "-"} => small_caps = <<>>

\* C12 as stated: for every non-empty base B and every quote Q, B+Q, B+"-"+Q
\* and B+Q+"_SPBL" resolve to the uppercased B; a symbol with no quote suffix
\* to the first 5 characters of the cleaned string; an empty symbol is dropped
C12_EveryBase ==
    Normalized => PairsResolve(PlainBases \cup OddBases) /\ BareResolve

\* C12 for the bases that hold neither "-" nor "_SPBL": the three spellings
\* resolve to the uppercased base; a symbol with no quote suffix resolves to
\* the first 5 characters of the cleaned string; an empty symbol is dropped
C12_SymbolNormalization ==
    Normalized => PairsResolve(PlainBases) /\ BareResolve

\* the suffixed spelling of a lowercase base has been resolved
C12_Witness ==
    /\ Normalized
    /\ symbol_of(tickers[1]) = "abcUSDC_SPBL"
    /\ ResolvesTo("ABC")

-----------------------------------------------------------------------------
(* run_once and the __main__ loop *)

REQUIRED_SCORE == 5

\* settings.coingecko_exchange_pages and settings.coingecko_pages
coingecko_exchange_pages == 5
coingecko_pages == 8

\* the exchange-scoped mapping is augmented when it has fewer entries
min_viable_caps == 50

\* the candidate loop needs this many candles of both series
min_candles == 60

\* the second pass looks at symbols[:50]
gemini_limit == 50

\* the class run_once's except clause names, with a clause that names
\* requests.RequestException in its place
run_once_handler_requests == "RequestException"
run_once_handler == "Exception"

\* cg_caps.update(other)
dict_update(caps, other) == other @@ caps

\* a source's answers to the pages 1..n: the given ones, then empty pages
PadPages(pgs, n) == [p \in 1..n |-> IF p <= Len(pgs) THEN pgs[p] ELSE Page(<<>>)]

\* an exchange with min_viable_caps stable-quoted coins
ManyCoins == [i \in 1..min_viable_caps |-> "coin" \o ToString(i)]
ManyTickers == [i \in 1..min_viable_caps |-> ExTicker("USDT", ManyCoins[i], "")]
ManyMarkets ==
    [id \in Range(ManyCoins) |->
        IF id = ManyCoins[1] THEN Market("abc", Num(min_market_cap + 1000000))
        ELSE Market("s" \o id, Num(min_market_cap))]

\* what the exchange-scoped source answers in a cycle: a mapping for ABC, a
\* transport error on the first page, fifty coins, a malformed first page
CycleExchangeSources ==
    {[pages |-> PadPages(<<Page(<<ExTicker("USDT", "abc-coin", "")>>)>>,
                         coingecko_exchange_pages),
      markets |-> [exc |-> "",
                   db |-> ("abc-coin" :> Market("abc", Num(min_market_cap + 1000000)))]],
     [pages |-> PadPages(<<PageError("ConnectionError")>>, coingecko_exchange_pages),
      markets |-> [exc |-> "", db |-> EmptyMap]],
     [pages |-> PadPages(<<Page(ManyTickers)>>, coingecko_exchange_pages),
      markets |-> [exc |-> "", db |-> ManyMarkets]],
     [pages |-> PadPages(<<PageMalformed>>, coingecko_exchange_pages),
      markets |-> [exc |-> "", db |-> EmptyMap]]}

\* what the generic listing answers in a cycle
CycleGenericSources ==
    {PadPages(<<Page(<<Market("abc", Num(min_market_cap + 2000000)),
                       Market("xyz", Num(max_market_cap))>>)>>, coingecko_pages),
     PadPages(<<Page(<<Market("xyz", Num(max_market_cap))>>)>>, coingecko_pages),
     PadPages(<<PageMalformed>>, coingecko_pages)}

\* the exceptions bitget_tickers raises: requests' own, RuntimeError for a
\* payload code that is not success, AttributeError for a payload that is no
\* object; TypeError is len(tickers) in run_once for "data": null
TickerErrors == RequestErrors \cup {"RuntimeError", "AttributeError", "TypeError"}

CycleTickers ==
    {<<>>,
     <<Ticker("ABCUSDT", "", RawNum(Pct(5, 0)), Absent, Absent),
       Ticker("", "XYZUSDT_SPBL", Absent, Absent, Absent)>>,
     <<Ticker("XYZUSD", "", RawPctStr(Pct(31, 0)), Absent, Absent),
       Ticker("ABC-USDT", "", Absent, Absent, Absent)>>}

\* a frame of the candidate loop: None, or the frame bitget_candles returned
\* for symbol variant v, with n rows
NoFrame == [none |-> TRUE, v |-> 0, n |-> 0]
Fetched(v, n) == [none |-> FALSE, v |-> v, n |-> n]

\* what one call of bitget_candles does: it raises exc (a transport error, a
\* payload code that is not success, a malformed payload), or returns n rows
CandleRaises(e) == [exc |-> e, n |-> 0]
CandleRows(n) == [exc |-> "", n |-> n]
CandleOutcomes ==
    {CandleRaises("ConnectionError"), CandleRaises("RuntimeError"),
     CandleRaises("ValueError"),
     CandleRows(0), CandleRows(min_candles - 1), CandleRows(min_candles)}

\* symbol_variants
Variants(sym) == IF EndsWith(sym, "_SPBL") THEN <<sym>> ELSE <<sym, sym \o "_SPBL">>

\* the class the candle loop's except clause names
candles_handler == "RequestException"

\* one iteration of "for sv in symbol_variants": d1 and d15 are df_1h and
\* df_15m before it, o1 and o15 what the two calls of bitget_candles do.
\* exit is "break", "continue" (also the end of the body) or "raise"
TryOne(d1, d15, v, o1, o15) ==
    IF o1.exc # ""
    THEN [df_1h |-> d1, df_15m |-> d15, exc |-> o1.exc,
          exit |-> IF IsSubclass(o1.exc, candles_handler) THEN "continue" ELSE "raise"]
    ELSE IF o15.exc # ""
    THEN [df_1h |-> Fetched(v, o1.n), df_15m |-> d15, exc |-> o15.exc,
          exit |-> IF IsSubclass(o15.exc, candles_handler) THEN "continue" ELSE "raise"]
    ELSE [df_1h |-> Fetched(v, o1.n), df_15m |-> Fetched(v, o15.n), exc |-> "",
          exit |-> IF o1.n > 0 /\ o15.n > 0 THEN "break" ELSE "continue"]

\* the scores compute_signal returns: ten conditions, two of them fixed False
PossibleScores == 0..(10 - 2)

\* symbols in the first pass, symbols[:50] in the second
CandList ==
    IF pass = "gemini" THEN SubSeq(symbols, 1, Min(gemini_limit, Len(symbols)))
    ELSE symbols

\* an exception leaves the try block of run_once: the except clause prints it
\* and run_once returns, or it leaves run_once and the process ends
Fail(step, exc) ==
    /\ failed_at' = step
    /\ pc' = IF IsSubclass(exc, run_once_handler) THEN "sleep" ELSE "terminated"

\* the locals of a call of run_once that has not assigned them yet
FreshLocals ==
    /\ tickers' = <<>> /\ cg_caps' = <<>> /\ small_caps' = <<>> /\ symbols' = <<>>
    /\ df_1h' = NoFrame /\ df_15m' = NoFrame /\ analysis' = <<>>
    /\ exch_caps' = <<>> /\ generic_caps' = NoGeneric /\ bad_tickers' = FALSE
    /\ pass' = "manual" /\ cand' = 1 /\ sv' = 1
    /\ alerts' = <<>> /\ sent' = <<>>
    /\ failed_at' = ""

InitCycle ==
    /\ pc = "fetch_tickers"
    /\ gemini_api_key \in BOOLEAN
    /\ tickers = <<>> /\ cg_caps = <<>> /\ small_caps = <<>> /\ symbols = <<>>
    /\ df_1h = NoFrame /\ df_15m = NoFrame /\ analysis = <<>>
    /\ exch_caps = <<>> /\ generic_caps = NoGeneric /\ bad_tickers = FALSE
    /\ pass = "manual" /\ cand = 1 /\ sv = 1
    /\ alerts = <<>> /\ sent = <<>>
    /\ failed_at = "" /\ prev_failed = FALSE
    /\ IdleBuild

\* lines 80-82: bitget_tickers raises, or returns the list (which may hold an
\* element that is no dict)
FetchTickers ==
    /\ pc = "fetch_tickers"
    /\ \/ /\ \E e \in TickerErrors : Fail("tickers", e)
          /\ UNCHANGED <<tickers, bad_tickers>>
       \/ /\ \E ts \in CycleTickers, junk \in BOOLEAN :
                tickers' = ts /\ bad_tickers' = junk
          /\ pc' = "build_caps"
          /\ UNCHANGED failed_at
    /\ UNCHANGED <<cg_caps, small_caps, symbols, buildVars, signalVars,
                   gemini_api_key, exch_caps, generic_caps, pass, cand, sv,
                   alerts, sent, prev_failed>>

\* lines 84-91: the exchange-scoped mapping, and the generic one laid over it
\* when the first has fewer than 50 entries
BuildCaps ==
    /\ pc = "build_caps"
    /\ \E xs \in CycleExchangeSources, gs \in CycleGenericSources :
          LET x == build_marketcap_map_from_exchange(xs)
              g == build_symbol_marketcap_map(gs)
          IN  IF x.raised
              THEN /\ Fail("caps", "AttributeError")
                   /\ UNCHANGED <<cg_caps, exch_caps, generic_caps>>
              ELSE IF Cardinality(DOMAIN x.caps) < min_viable_caps
              THEN IF g.raised
                   THEN /\ Fail("caps", "AttributeError")
                        /\ cg_caps' = x.caps
                        /\ exch_caps' = x.caps
                        /\ UNCHANGED generic_caps
                   ELSE /\ cg_caps' = dict_update(x.caps, g.caps)
                        /\ exch_caps' = x.caps
                        /\ generic_caps' = [computed |-> TRUE, caps |-> g.caps]
                        /\ pc' = "pick_symbols"
                        /\ UNCHANGED failed_at
              ELSE /\ cg_caps' = x.caps
                   /\ exch_caps' = x.caps
                   /\ generic_caps' = NoGeneric
                   /\ pc' = "pick_symbols"
                   /\ UNCHANGED failed_at
    /\ UNCHANGED <<tickers, small_caps, symbols, buildVars, signalVars,
                   gemini_api_key, bad_tickers, pass, cand, sv, alerts, sent,
                   prev_failed>>

\* line 92 when an element of the list is no dict: pick_symbols raises
PickRaises ==
    /\ pc = "pick_symbols"
    /\ bad_tickers
    /\ Fail("filter", "TypeError")
    /\ UNCHANGED <<pickVars, buildVars, signalVars, gemini_api_key, exch_caps,
                   generic_caps, bad_tickers, pass, cand, sv, alerts, sent,
                   prev_failed>>

\* lines 97-114 (134-145 in the second pass): the candidate's symbol, and one
\* iteration of the loop over its variants
TryVariant ==
    /\ pc = "candidates"
    /\ pass \in {"manual", "gemini"}
    /\ cand <= Len(CandList)
    /\ LET sym == symbol_of(CandList[cand])
           d1 == IF sv = 1 THEN NoFrame ELSE df_1h
           d15 == IF sv = 1 THEN NoFrame ELSE df_15m
       IN  IF sym = ""
           THEN /\ cand' = cand + 1
                /\ UNCHANGED <<pc, sv, df_1h, df_15m, failed_at>>
           ELSE \E o1 \in CandleOutcomes, o15 \in CandleOutcomes :
                  LET r == TryOne(d1, d15, sv, o1, o15)
                  IN  /\ df_1h' = r.df_1h
                      /\ df_15m' = r.df_15m
                      /\ IF r.exit = "raise"
                         THEN Fail("candles", r.exc) /\ UNCHANGED <<cand, sv>>
                         ELSE /\ IF r.exit = "continue" /\ sv < Len(Variants(sym))
                                 THEN sv' = sv + 1 /\ pc' = "candidates"
                                 ELSE sv' = sv /\ pc' = "judge"
                              /\ UNCHANGED <<cand, failed_at>>
    /\ analysis' = IF sv = 1 THEN <<>> ELSE analysis
    /\ UNCHANGED <<pickVars, buildVars, gemini_api_key, exch_caps, generic_caps,
                   bad_tickers, pass, alerts, sent, prev_failed>>

NextCandidate == cand' = cand + 1 /\ sv' = 1 /\ pc' = "candidates"

\* analysis["score"] >= REQUIRED_SCORE, and the test with > in its place
alert_worthy_above(score) == score > REQUIRED_SCORE
alert_worthy(score) == score >= REQUIRED_SCORE

\* lines 115-126 (146-154 in the second pass): skip the candidate, or score it
\* and alert; send_alert returns whether the message went out
Judge ==
    /\ pc = "judge"
    /\ LET t == CandList[cand]
           base == t["_base"]
           short == \/ df_1h.none \/ df_15m.none
                    \/ df_1h.n < min_candles \/ df_15m.n < min_candles
       IN  \/ /\ short
              /\ NextCandidate
              /\ UNCHANGED <<analysis, alerts, sent, failed_at>>
           \/ /\ ~short
              /\ \E score \in PossibleScores, ok \in BOOLEAN :
                    /\ analysis' = [raised |-> FALSE, score |-> score]
                    /\ IF alert_worthy(score)
                       THEN /\ alerts' = IF pass = "manual" THEN Append(alerts, base)
                                         ELSE alerts
                            /\ sent' = Append(sent, [base |-> base, source |-> pass,
                                                     ok |-> ok])
                       ELSE UNCHANGED <<alerts, sent>>
              /\ NextCandidate
              /\ UNCHANGED failed_at
           \/ /\ ~short
              /\ analysis' = [raised |-> TRUE, score |-> 0]
              /\ Fail("scoring", "ValueError")
              /\ UNCHANGED <<cand, sv, alerts, sent>>
    /\ UNCHANGED <<pickVars, buildVars, df_1h, df_15m, gemini_api_key, exch_caps,
                   generic_caps, bad_tickers, pass, prev_failed>>

\* the end of a candidate loop: lines 128-130 and 156-162
EndPass ==
    /\ pc = "candidates"
    /\ pass \in {"manual", "gemini"}
    /\ cand > Len(CandList)
    /\ IF pass = "manual" /\ gemini_api_key
       THEN pass' = "gemini" /\ cand' = 1 /\ sv' = 1 /\ pc' = "candidates"
       ELSE pc' = "report" /\ UNCHANGED <<pass, cand, sv>>
    /\ UNCHANGED <<pickVars, buildVars, signalVars, gemini_api_key, exch_caps,
                   generic_caps, bad_tickers, alerts, sent, failed_at, prev_failed>>

\* lines 156-162: the alerts are printed and run_once returns
Report ==
    /\ pc = "report"
    /\ pc' = "sleep"
    /\ UNCHANGED <<pickVars, buildVars, signalVars, cycleVars>>

\* __main__: time.sleep returns and run_once is called again
Sleep ==
    /\ pc = "sleep"
    /\ pc' = "fetch_tickers"
    /\ prev_failed' = (failed_at # "")
    /\ FreshLocals
    /\ UNCHANGED <<buildVars, gemini_api_key>>

NextCycle ==
    \/ FetchTickers
    \/ BuildCaps
    \/ PickSymbols
    \/ PickRaises
    \/ TryVariant
    \/ Judge
    \/ EndPass
    \/ Report
    \/ Sleep

SpecCycle == InitCycle /\ [][NextCycle]_vars

-----------------------------------------------------------------------------
(* Claims about the cycle *)

\* the states of a cycle after lines 84-91
CapsMerged == pc \in {"pick_symbols", "candidates", "judge", "report"}

\* C1: whenever the exchange-scoped mapping has fewer than 50 entries and the
\* generic mapping is computed, the final mapping keeps the exchange-scoped
\* value of every symbol the exchange-scoped mapping contains, and takes the
\* generic value only for the symbols absent from it
C1_ExchangeValuesKept ==
    (/\ CapsMerged
     /\ generic_caps.computed
     /\ Cardinality(DOMAIN exch_caps) < min_viable_caps)
    => /\ \A s \in DOMAIN exch_caps : s \in DOMAIN cg_caps /\ cg_caps[s] = exch_caps[s]
       /\ \A s \in DOMAIN cg_caps \ DOMAIN exch_caps :
              s \in DOMAIN generic_caps.caps /\ cg_caps[s] = generic_caps.caps[s]

\* the part of C1 the code does satisfy: the symbols absent from the
\* exchange-scoped mapping get the generic value, and no other symbol appears
C1_GenericFillsAbsent ==
    (/\ CapsMerged
     /\ generic_caps.computed
     /\ Cardinality(DOMAIN exch_caps) < min_viable_caps)
    => /\ DOMAIN cg_caps = DOMAIN exch_caps \cup DOMAIN generic_caps.caps
       /\ \A s \in DOMAIN cg_caps \ DOMAIN exch_caps :
              cg_caps[s] = generic_caps.caps[s]

\* the candidates the cycle has finished with in the first pass
ManualDone == IF pass = "manual" THEN cand - 1 ELSE Len(symbols)

\* C2: a failure of bitget_candles of any kind is caught at the call site, so
\* that a cycle whose other steps did not fail has evaluated every candidate
\* when run_once returns
C2_LaterCandidatesEvaluated ==
    (pc = "sleep" /\ failed_at \notin {"tickers", "caps", "filter", "scoring"})
    => /\ failed_at = ""
       /\ ManualDone = Len(symbols)

\* the part of C2 the code does satisfy: a cycle in which no step raised past
\* its call site has evaluated every candidate
C2_UnfailedCycleEvaluatesAll ==
    (pc = "sleep" /\ failed_at = "") => ManualDone = Len(symbols)

\* C3: whatever a step of a cycle raises, run_once returns without an
\* exception: the process never terminates, the step that failed is followed
\* by the sleep of the loop, and the sleep by the next call of run_once
C3_CycleContainment ==
    /\ [](pc # "terminated")
    /\ [][(failed_at = "" /\ failed_at' # "") => pc' = "sleep"]_vars
    /\ [][pc = "sleep" => pc' = "fetch_tickers" /\ failed_at' = ""]_vars

\* a cycle that follows a failed one has fetched its tickers
C3_Witness == prev_failed /\ pc = "build_caps" /\ failed_at = ""

\* df_1h or df_15m is missing or has fewer than 60 candles
C11_Insufficient ==
    \/ df_1h.none \/ df_15m.none
    \/ df_1h.n < 60 \/ df_15m.n < 60

\* the step alerts for the candidate: one message more in alerts, and one call
\* more of send_alert, for the candidate's base in the first pass
C11_Alerted ==
    /\ alerts' = Append(alerts, CandList[cand]["_base"])
    /\ Len(sent') = Len(sent) + 1
    /\ SubSeq(sent', 1, Len(sent)) = sent
    /\ sent'[Len(sent')].base = CandList[cand]["_base"]
    /\ sent'[Len(sent')].source = "manual"

\* C11: in the first pass a candidate whose 1h or 15m series is missing or has
\* fewer than 60 candles is passed over without being scored and without an
\* alert; a candidate with at least 60 candles in both series is alerted for
\* if and only if its score is at least 5
C11_AlertDecision ==
    [][(pc = "judge" /\ pass = "manual") =>
          IF C11_Insufficient
          THEN /\ analysis' = analysis
               /\ UNCHANGED <<alerts, sent, failed_at>>
               /\ cand' = cand + 1
          ELSE IF analysis'.raised
          THEN UNCHANGED <<alerts, sent>>
          ELSE /\ (analysis'.score >= 5) <=> C11_Alerted
               /\ (analysis'.score < 5) <=> UNCHANGED <<alerts, sent>>
               /\ cand' = cand + 1]_vars

\* the second candidate, with 60 candles in both series and score 5, has been
\* alerted for, and the first has not
C11_Witness ==
    /\ pc = "candidates" /\ pass = "manual" /\ cand = 3
    /\ DOMAIN analysis # {}
    /\ ~analysis.raised /\ analysis.score = 5
    /\ df_1h.n = 60 /\ df_15m.n = 60
    /\ Len(alerts) = 1 /\ Len(sent) = 1

\* the candidate at hand goes on to compute_signal: both series are there
\* with at least 60 candles
C13_Scored ==
    /\ pc = "judge"
    /\ ~df_1h.none /\ ~df_15m.none
    /\ df_1h.n >= 60 /\ df_15m.n >= 60

\* C13: the 1h series and the 15m series passed together to compute_signal
\* were fetched with the same symbol variant
C13_SameVariantScored == C13_Scored => df_1h.v = df_15m.v

\* the part of C13 the code does satisfy: the 15m series is never of a later
\* variant than the 1h series
C13_FastNotLater == C13_Scored => df_15m.v <= df_1h.v

=============================================================================
